---------------------------- MODULE Spec2Model ----------------------------
(***************************************************************************)
(* A model of mrutil/streaming.py (plumbee/mapreduce-utils): the three     *)
(* generators map_json_record_reader, reduce_record_grouper and            *)
(* time_based_sessionizer, each as a state machine whose actions are the   *)
(* stretches of code run between two suspension points of the generator.   *)
(*                                                                         *)
(* Text is a sequence of one-character strings.  A Python None is the      *)
(* empty tuple and a present value x is the one-element tuple <<x>>.       *)
(***************************************************************************)
EXTENDS Integers, Sequences, FiniteSets, TLC

VARIABLES
    comp,                \* which generator this behaviour runs
    pc,                  \* where the generator is suspended
    pos,                 \* number of items the input iterator has handed out
    out,                 \* the values yielded so far, in order
    err,                 \* the exception that ended the generator, or "none"
    events,              \* time_based_sessionizer: argument events
    inactivity_timeout,  \* time_based_sessionizer: argument inactivity_timeout
    data,                \* time_based_sessionizer: local data
    prev_timestamp,      \* time_based_sessionizer: local prev_timestamp
    row,                 \* time_based_sessionizer: loop variable row
    stream,              \* reader and grouper: argument stream (the lines)
    delimiter,           \* reduce_record_grouper: argument delimiter
    tgtkey,              \* itertools.groupby: key of the group being built
    currkey,             \* itertools.groupby: key of the item looked at
    currvalue,           \* itertools.groupby: the item looked at
    rows,                \* reduce_record_grouper: rows of the list being built
    input_format,        \* map_json_record_reader: argument input_format
    offset,              \* map_json_record_reader: local offset
    shared,              \* time_based_sessionizer: index in out of the yielded
                         \* session whose events list is the list object that
                         \* data is bound to, 0 when no yielded session has it
    key,                 \* emit: argument key
    values,              \* emit: argument values
    other                \* the frame of a second, suspended invocation, or None

vars == <<comp, pc, pos, out, err, events, inactivity_timeout, data,
          prev_timestamp, row, stream, delimiter, tgtkey, currkey, currvalue,
          rows, input_format, offset, shared, key, values, other>>

sessVars == <<events, inactivity_timeout, data, prev_timestamp, row, shared>>
grpVars  == <<delimiter, tgtkey, currkey, currvalue, rows>>
rdrVars  == <<input_format, offset>>
envVars  == <<key, values, other>>

---------------------------------------------------------------------------
(* Bounds of the model.                                                    *)

MaxEvents  == 3     \* longest event sequence
MaxNegTs   == 1     \* timestamps range over -MaxNegTs .. MaxTs
MaxTs      == 3
MaxTimeout == 2     \* inactivity_timeout ranges over 0 .. MaxTimeout
MaxLines   == 3     \* most lines in a stream
MaxChars   == 4     \* most characters in a stream, line breaks not counted
MaxValues  == 2     \* most values in one call of emit
MaxTextLen == 1     \* longest string given to emit as a key or a value
MaxPairEvents == 2  \* longest event sequence of one of two invocations
MaxPairLines  == 2  \* most lines in the stream of one of two invocations

---------------------------------------------------------------------------
(* Python values.                                                          *)

None == <<>>
Some(x) == <<x>>

\* operator.itemgetter(0), the default key_func of both components
itemgetter0(r) == r[1]

\* int(x) of a value that already is an integer
int(x) == x

\* truth value of `prev_timestamp`: None and 0 are both false
Truthy(p) == p # None /\ p[1] # 0

---------------------------------------------------------------------------
(* time_based_sessionizer                                                  *)

Timestamps == (0 - MaxNegTs) .. MaxTs

\* an event row is [timestamp, id]; the id is the position of the event, so
\* that every event of an input is distinguishable from the others
EventSeqs ==
    UNION { { [i \in 1..n |-> <<f[i], i>>] : f \in [1..n -> Timestamps] }
            : n \in 0..MaxEvents }

\* line 156: prev_timestamp and curr_timestamp - prev_timestamp > inactivity_timeout
SplitCondGE(p, curr_timestamp, timeout) ==
    Truthy(p) /\ curr_timestamp - p[1] >= timeout

SplitCond(p, curr_timestamp, timeout) ==
    Truthy(p) /\ curr_timestamp - p[1] > timeout

\* lines 157 and 163: (int(key_func(data[0])), int(key_func(data[-1])), data)
SessionOfRow(d, r) ==
    <<int(itemgetter0(r)), int(itemgetter0(d[Len(d)])), d>>

SessionOf(d, r) ==
    <<int(itemgetter0(d[1])), int(itemgetter0(d[Len(d)])), d>>

\* lines 158-159: data = []; data.append(row)
FreshDataKeep(d, r) == Append(d, r)

FreshData(d, r) == Append(<<>>, r)

\* line 159, data.append(row), as seen through a yielded session whose
\* events list is the same list object (index i of out; 0: there is none)
AppendThrough(o, i, r) ==
    IF i = 0 THEN o ELSE [o EXCEPT ![i][3] = Append(@, r)]

InitSess ==
    /\ comp = "sessionizer"
    /\ pc = "loop"
    /\ pos = 0
    /\ out = <<>>
    /\ err = "none"
    /\ events \in EventSeqs
    /\ inactivity_timeout \in 0..MaxTimeout
    /\ data = <<>>
    /\ prev_timestamp = None
    /\ row = None
    /\ stream = <<>>
    /\ delimiter = <<>>
    /\ tgtkey = None
    /\ currkey = None
    /\ currvalue = None
    /\ rows = <<>>
    /\ input_format = "SEQUENCE_FILE"
    /\ offset = 0
    /\ shared = 0
    /\ key = <<>>
    /\ values = <<>>
    /\ other = None

\* lines 154-156 and 159-160: the next event does not close the session
SessAppend ==
    /\ comp = "sessionizer" /\ pc = "loop" /\ pos < Len(events)
    /\ LET r == events[pos + 1]
           curr_timestamp == int(itemgetter0(r))
       IN /\ ~SplitCond(prev_timestamp, curr_timestamp, inactivity_timeout)
          /\ data' = Append(data, r)
          /\ out' = AppendThrough(out, shared, r)
          /\ prev_timestamp' = Some(curr_timestamp)
          /\ row' = Some(r)
    /\ pos' = pos + 1
    /\ UNCHANGED <<comp, pc, err, events, inactivity_timeout, stream, shared>>
    /\ UNCHANGED grpVars /\ UNCHANGED rdrVars
    /\ UNCHANGED envVars

\* lines 154-157: the next event closes the session, which is yielded
SessSplit ==
    /\ comp = "sessionizer" /\ pc = "loop" /\ pos < Len(events)
    /\ LET r == events[pos + 1]
           curr_timestamp == int(itemgetter0(r))
       IN /\ SplitCond(prev_timestamp, curr_timestamp, inactivity_timeout)
          /\ out' = Append(out, SessionOf(data, r))
          /\ row' = Some(r)
    /\ shared' = Len(out) + 1
    /\ pos' = pos + 1
    /\ pc' = "yield157"
    /\ UNCHANGED <<comp, err, events, inactivity_timeout, data,
                   prev_timestamp, stream>>
    /\ UNCHANGED grpVars /\ UNCHANGED rdrVars
    /\ UNCHANGED envVars

\* lines 158-160 with the list emptied in place (del data[:]) rather than
\* replaced: the session just yielded holds the same list and changes with it
SessResumeInPlace ==
    /\ comp = "sessionizer" /\ pc = "yield157"
    /\ data' = Append(<<>>, row[1])
    /\ out' = [out EXCEPT ![shared][3] = Append(<<>>, row[1])]
    /\ prev_timestamp' = Some(int(itemgetter0(row[1])))
    /\ pc' = "loop"
    /\ UNCHANGED <<comp, pos, err, events, inactivity_timeout, row,
                   stream, shared>>
    /\ UNCHANGED grpVars /\ UNCHANGED rdrVars
    /\ UNCHANGED envVars

\* lines 158-160: resumed after the yield of line 157; data = [] binds data
\* to a new list, which no yielded session holds
SessResume ==
    /\ comp = "sessionizer" /\ pc = "yield157"
    /\ data' = FreshData(data, row[1])
    /\ shared' = 0
    /\ prev_timestamp' = Some(int(itemgetter0(row[1])))
    /\ pc' = "loop"
    /\ UNCHANGED <<comp, pos, out, err, events, inactivity_timeout, row,
                   stream>>
    /\ UNCHANGED grpVars /\ UNCHANGED rdrVars
    /\ UNCHANGED envVars

\* lines 162-163 without the final yield: the pending data is dropped
SessFinalDropped ==
    /\ comp = "sessionizer" /\ pc = "loop" /\ pos = Len(events)
    /\ Len(data) # 0
    /\ pc' = "done"
    /\ UNCHANGED <<comp, pos, out, err, stream>>
    /\ UNCHANGED sessVars /\ UNCHANGED grpVars /\ UNCHANGED rdrVars
    /\ UNCHANGED envVars

\* lines 162-163: the events are exhausted and data is not empty
SessFinal ==
    /\ comp = "sessionizer" /\ pc = "loop" /\ pos = Len(events)
    /\ Len(data) # 0
    /\ out' = Append(out, SessionOf(data, row[1]))
    /\ shared' = Len(out) + 1
    /\ pc' = "yield163"
    /\ UNCHANGED <<comp, pos, err, stream, events, inactivity_timeout, data,
                   prev_timestamp, row>>
    /\ UNCHANGED grpVars /\ UNCHANGED rdrVars
    /\ UNCHANGED envVars

\* lines 162-163: the generator returns (StopIteration for the caller)
SessEnd ==
    /\ comp = "sessionizer"
    /\ \/ pc = "yield163"
       \/ pc = "loop" /\ pos = Len(events) /\ Len(data) = 0
    /\ pc' = "done"
    /\ UNCHANGED <<comp, pos, out, err, stream>>
    /\ UNCHANGED sessVars /\ UNCHANGED grpVars /\ UNCHANGED rdrVars
    /\ UNCHANGED envVars

NextSess == SessAppend \/ SessSplit \/ SessResume \/ SessFinal \/ SessEnd

SpecSess == InitSess /\ [][NextSess]_vars

---------------------------------------------------------------------------
(* Text: str.rstrip, str.partition, str.split.                             *)

KV_SEPARATOR == "\t"
LineBreak    == "\n"

\* the characters of the model's lines: a digit, the separator and a space
Chars == {"1", KV_SEPARATOR, " "}

\* the characters str.rstrip() removes, among those of the model
Whitespace == {" ", "\t", "\n"}

\* s.rstrip(): s without its trailing whitespace
RECURSIVE rstrip(_)
rstrip(s) ==
    IF s # <<>> /\ s[Len(s)] \in Whitespace
    THEN rstrip(SubSeq(s, 1, Len(s) - 1))
    ELSE s

\* s.find(c) + 1: the position of the first c in s, 0 when there is none
Find(s, c) ==
    IF \E i \in DOMAIN s : s[i] = c
    THEN CHOOSE i \in DOMAIN s : s[i] = c /\ \A j \in 1..(i - 1) : s[j] # c
    ELSE 0

\* s.partition(sep): (head, sep, tail), or (s, '', '') when sep is not in s
partition(s, sep) ==
    LET i == Find(s, sep)
    IN IF i = 0
       THEN <<s, <<>>, <<>>>>
       ELSE <<SubSeq(s, 1, i - 1), <<sep>>, SubSeq(s, i + 1, Len(s))>>

\* s.split(d) for a one-character d: the pieces of s between occurrences of d
RECURSIVE split(_, _)
split(s, d) ==
    LET i == Find(s, d)
    IN IF i = 0
       THEN <<s>>
       ELSE <<SubSeq(s, 1, i - 1)>> \o split(SubSeq(s, i + 1, Len(s)), d)

TextsUpTo(n) == UNION { [1..k -> Chars] : k \in 0..n }

\* the streams of at most l lines holding at most c characters in all, every
\* line ended by a line break
RECURSIVE StreamsWith(_, _)
StreamsWith(l, c) ==
    IF l = 0
    THEN {<<>>}
    ELSE {<<>>} \cup
         UNION { { <<Append(b, LineBreak)>> \o rest :
                       rest \in StreamsWith(l - 1, c - Len(b)) }
                 : b \in TextsUpTo(c) }

Streams == StreamsWith(MaxLines, MaxChars)

---------------------------------------------------------------------------
(* reduce_record_grouper                                                   *)

\* the delimiters tried: '' (no splitting), the default '\t', and ' '
Delimiters == {<<>>, <<"\t">>, <<" ">>}

\* lines 121-124, reader(): (k, v) of one line
ParseLine(line) ==
    LET p == partition(rstrip(line), KV_SEPARATOR)
    IN <<p[1], p[3]>>

\* lines 127-130: the row made of the item (key, value)
RowOf(item, delim) ==
    IF delim # <<>> THEN split(item[2], delim[1]) ELSE item[2]

\* itertools.groupby: tgtkey == currkey
SameKeyAlways(a, b) == TRUE

SameKeyNever(a, b) == a # a

SameKey(a, b) == a = b

InitGrp ==
    /\ comp = "grouper"
    /\ pc = "start"
    /\ pos = 0
    /\ out = <<>>
    /\ err = "none"
    /\ events = <<>>
    /\ inactivity_timeout = 0
    /\ data = <<>>
    /\ prev_timestamp = None
    /\ row = None
    /\ stream \in Streams
    /\ delimiter \in Delimiters
    /\ tgtkey = None
    /\ currkey = None
    /\ currvalue = None
    /\ rows = <<>>
    /\ input_format = "SEQUENCE_FILE"
    /\ offset = 0
    /\ shared = 0
    /\ key = <<>>
    /\ values = <<>>
    /\ other = None

\* line 126, groupby's first step: reader() parses the first line, whose key
\* becomes the key of the first group
GrpFirst ==
    /\ comp = "grouper" /\ pc = "start" /\ pos < Len(stream)
    /\ LET item == ParseLine(stream[pos + 1])
       IN /\ currvalue' = Some(item)
          /\ currkey' = Some(itemgetter0(item))
          /\ tgtkey' = Some(itemgetter0(item))
    /\ pos' = pos + 1
    /\ rows' = <<>>
    /\ pc' = "inner"
    /\ UNCHANGED <<comp, out, err, stream, delimiter>>
    /\ UNCHANGED sessVars /\ UNCHANGED rdrVars
    /\ UNCHANGED envVars

\* lines 126-130, resumed after a yield: the item that ended the last group
\* has another key, which becomes the key of the next group
GrpNextGroup ==
    /\ comp = "grouper" /\ pc = "yield" /\ currvalue # None
    /\ ~SameKey(tgtkey[1], currkey[1])
    /\ tgtkey' = currkey
    /\ rows' = <<>>
    /\ pc' = "inner"
    /\ UNCHANGED <<comp, pos, out, err, stream, delimiter, currkey, currvalue>>
    /\ UNCHANGED sessVars /\ UNCHANGED rdrVars
    /\ UNCHANGED envVars

\* lines 128 and 130, one step of list(...): the item looked at (read from
\* reader() when the last one was taken) has the key of the group, and its
\* row is added
GrpTake ==
    /\ comp = "grouper" /\ pc = "inner"
    /\ ~(currvalue = None /\ pos = Len(stream))
    /\ LET item == IF currvalue # None THEN currvalue[1]
                   ELSE ParseLine(stream[pos + 1])
       IN /\ SameKey(tgtkey[1], itemgetter0(item))
          /\ rows' = Append(rows, RowOf(item, delimiter))
          /\ currkey' = Some(itemgetter0(item))
    /\ currvalue' = None
    /\ pos' = IF currvalue # None THEN pos ELSE pos + 1
    /\ UNCHANGED <<comp, pc, out, err, stream, delimiter, tgtkey>>
    /\ UNCHANGED sessVars /\ UNCHANGED rdrVars
    /\ UNCHANGED envVars

\* the same step with the item that ended the group thrown away
GrpYieldOnKeyDrop ==
    /\ comp = "grouper" /\ pc = "inner"
    /\ ~(currvalue = None /\ pos = Len(stream))
    /\ LET item == IF currvalue # None THEN currvalue[1]
                   ELSE ParseLine(stream[pos + 1])
       IN /\ ~SameKey(tgtkey[1], itemgetter0(item))
          /\ currkey' = Some(itemgetter0(item))
    /\ currvalue' = None
    /\ pos' = IF currvalue # None THEN pos ELSE pos + 1
    /\ out' = Append(out, <<tgtkey[1], rows>>)
    /\ pc' = "yield"
    /\ UNCHANGED <<comp, err, stream, delimiter, tgtkey, rows>>
    /\ UNCHANGED sessVars /\ UNCHANGED rdrVars
    /\ UNCHANGED envVars

\* lines 128 and 130, the last step of list(...): the item looked at has
\* another key; the group is complete and is yielded
GrpYieldOnKey ==
    /\ comp = "grouper" /\ pc = "inner"
    /\ ~(currvalue = None /\ pos = Len(stream))
    /\ LET item == IF currvalue # None THEN currvalue[1]
                   ELSE ParseLine(stream[pos + 1])
       IN /\ ~SameKey(tgtkey[1], itemgetter0(item))
          /\ currvalue' = Some(item)
          /\ currkey' = Some(itemgetter0(item))
    /\ pos' = IF currvalue # None THEN pos ELSE pos + 1
    /\ out' = Append(out, <<tgtkey[1], rows>>)
    /\ pc' = "yield"
    /\ UNCHANGED <<comp, err, stream, delimiter, tgtkey, rows>>
    /\ UNCHANGED sessVars /\ UNCHANGED rdrVars
    /\ UNCHANGED envVars

\* lines 123, 128 and 130: stream.next() raises StopIteration, which ends
\* reader() and with it list(...); the group is complete and is yielded
GrpYieldOnEnd ==
    /\ comp = "grouper" /\ pc = "inner"
    /\ currvalue = None /\ pos = Len(stream)
    /\ out' = Append(out, <<tgtkey[1], rows>>)
    /\ pc' = "yield"
    /\ UNCHANGED <<comp, pos, err, stream>>
    /\ UNCHANGED grpVars /\ UNCHANGED sessVars /\ UNCHANGED rdrVars
    /\ UNCHANGED envVars

\* line 126: groupby finds reader() exhausted and the for loop ends
GrpEnd ==
    /\ comp = "grouper"
    /\ \/ pc = "start" /\ pos = Len(stream)
       \/ pc = "yield" /\ currvalue = None /\ pos = Len(stream)
    /\ pc' = "done"
    /\ UNCHANGED <<comp, pos, out, err, stream>>
    /\ UNCHANGED grpVars /\ UNCHANGED sessVars /\ UNCHANGED rdrVars
    /\ UNCHANGED envVars

NextGrp ==
    \/ GrpFirst \/ GrpNextGroup \/ GrpTake
    \/ GrpYieldOnKey \/ GrpYieldOnEnd \/ GrpEnd

SpecGrp == InitGrp /\ [][NextGrp]_vars

---------------------------------------------------------------------------
(* map_json_record_reader                                                  *)

INPUT_FORMAT_SEQUENCE_FILE == "SEQUENCE_FILE"
INPUT_FORMAT_TEXT_FILE     == "TEXT_FILE"

\* the input_format values tried: the two known ones and an unknown one
InputFormats ==
    {INPUT_FORMAT_SEQUENCE_FILE, INPUT_FORMAT_TEXT_FILE, "AVRO_FILE"}

\* s.lstrip(): s without its leading whitespace
RECURSIVE lstrip(_)
lstrip(s) ==
    IF s # <<>> /\ s[1] \in Whitespace THEN lstrip(Tail(s)) ELSE s

\* the number written by a text of digits
RECURSIVE Decimal(_)
Decimal(s) ==
    IF s = <<>> THEN 0
    ELSE 10 * Decimal(SubSeq(s, 1, Len(s) - 1)) + 1

\* json.loads(s) for a text over Chars: whitespace around the document is
\* skipped, and the only documents these characters can write are the numbers
\* 1, 11, 111, ...; anything else (the empty text included) is a ValueError.
\* The result is <<value>>, or None for the ValueError.
json_loads(s) ==
    LET t == lstrip(rstrip(s))
    IN IF t # <<>> /\ \A i \in DOMAIN t : t[i] = "1"
       THEN Some(Decimal(t))
       ELSE None

\* lines 78-79 and 81 with line.strip() in place of line.rstrip()
RecordOfStrip(line, fmt, off) ==
    IF fmt = INPUT_FORMAT_SEQUENCE_FILE
    THEN LET p == partition(lstrip(rstrip(line)), KV_SEPARATOR)
             v == json_loads(p[3])
         IN IF v = None THEN None ELSE Some(<<p[1], v[1]>>)
    ELSE LET v == json_loads(lstrip(rstrip(line)))
         IN IF v = None THEN None ELSE Some(<<off, v[1]>>)

\* lines 78-79 and 81 with a line that has no separator passed on undecoded
RecordOfNoDecode(line, fmt, off) ==
    IF fmt = INPUT_FORMAT_SEQUENCE_FILE
    THEN LET p == partition(rstrip(line), KV_SEPARATOR)
             v == json_loads(p[3])
         IN IF p[2] = <<>> THEN Some(<<p[1], p[3]>>)
            ELSE IF v = None THEN None ELSE Some(<<p[1], v[1]>>)
    ELSE LET v == json_loads(rstrip(line))
         IN IF v = None THEN None ELSE Some(<<off, v[1]>>)

\* lines 78-79 and 81: the record of one line, or None when json.loads raises
RecordOf(line, fmt, off) ==
    IF fmt = INPUT_FORMAT_SEQUENCE_FILE
    THEN LET p == partition(rstrip(line), KV_SEPARATOR)
             v == json_loads(p[3])
         IN IF v = None THEN None ELSE Some(<<p[1], v[1]>>)
    ELSE LET v == json_loads(rstrip(line))
         IN IF v = None THEN None ELSE Some(<<off, v[1]>>)

KnownFormat(fmt) ==
    fmt \in {INPUT_FORMAT_SEQUENCE_FILE, INPUT_FORMAT_TEXT_FILE}

InitRdr ==
    /\ comp = "reader"
    /\ pc = "loop"
    /\ pos = 0
    /\ out = <<>>
    /\ err = "none"
    /\ events = <<>>
    /\ inactivity_timeout = 0
    /\ data = <<>>
    /\ prev_timestamp = None
    /\ row = None
    /\ stream \in Streams
    /\ delimiter = <<>>
    /\ tgtkey = None
    /\ currkey = None
    /\ currvalue = None
    /\ rows = <<>>
    /\ input_format \in InputFormats
    /\ offset = 0
    /\ shared = 0
    /\ key = <<>>
    /\ values = <<>>
    /\ other = None

\* lines 76-81: the next line is decoded and its record yielded
RdrYield ==
    /\ comp = "reader" /\ pc = "loop" /\ pos < Len(stream)
    /\ KnownFormat(input_format)
    /\ LET r == RecordOf(stream[pos + 1], input_format, offset)
       IN /\ r # None
          /\ out' = Append(out, r[1])
    /\ pos' = pos + 1
    /\ pc' = "yield"
    /\ UNCHANGED <<comp, err, stream>>
    /\ UNCHANGED rdrVars /\ UNCHANGED grpVars /\ UNCHANGED sessVars
    /\ UNCHANGED envVars

\* lines 79 and 81: json.loads raises ValueError, which ends the generator
RdrBadJson ==
    /\ comp = "reader" /\ pc = "loop" /\ pos < Len(stream)
    /\ KnownFormat(input_format)
    /\ RecordOf(stream[pos + 1], input_format, offset) = None
    /\ pos' = pos + 1
    /\ err' = "ValueError"
    /\ pc' = "raised"
    /\ UNCHANGED <<comp, out, stream>>
    /\ UNCHANGED rdrVars /\ UNCHANGED grpVars /\ UNCHANGED sessVars
    /\ UNCHANGED envVars

\* line 82 with offset += len(line.rstrip()): the line break is not counted
RdrResumeStripped ==
    /\ comp = "reader" /\ pc = "yield"
    /\ offset' = IF input_format = INPUT_FORMAT_TEXT_FILE
                 THEN offset + Len(rstrip(stream[pos]))
                 ELSE offset
    /\ pc' = "loop"
    /\ UNCHANGED <<comp, pos, out, err, stream, input_format>>
    /\ UNCHANGED grpVars /\ UNCHANGED sessVars
    /\ UNCHANGED envVars

\* lines 79 and 82: resumed after a yield; in text mode offset += len(line)
RdrResume ==
    /\ comp = "reader" /\ pc = "yield"
    /\ offset' = IF input_format = INPUT_FORMAT_TEXT_FILE
                 THEN offset + Len(stream[pos])
                 ELSE offset
    /\ pc' = "loop"
    /\ UNCHANGED <<comp, pos, out, err, stream, input_format>>
    /\ UNCHANGED grpVars /\ UNCHANGED sessVars
    /\ UNCHANGED envVars

\* lines 83-84: a line was read and input_format is neither known format
RdrUnknownFormat ==
    /\ comp = "reader" /\ pc = "loop" /\ pos < Len(stream)
    /\ ~KnownFormat(input_format)
    /\ pos' = pos + 1
    /\ err' = "RuntimeError"
    /\ pc' = "raised"
    /\ UNCHANGED <<comp, out, stream>>
    /\ UNCHANGED rdrVars /\ UNCHANGED grpVars /\ UNCHANGED sessVars
    /\ UNCHANGED envVars

\* line 76: the stream is exhausted and the generator returns
RdrEnd ==
    /\ comp = "reader" /\ pc = "loop" /\ pos = Len(stream)
    /\ pc' = "done"
    /\ UNCHANGED <<comp, pos, out, err, stream>>
    /\ UNCHANGED rdrVars /\ UNCHANGED grpVars /\ UNCHANGED sessVars
    /\ UNCHANGED envVars

NextRdr ==
    RdrYield \/ RdrBadJson \/ RdrResume \/ RdrUnknownFormat \/ RdrEnd

SpecRdr == InitRdr /\ [][NextRdr]_vars

---------------------------------------------------------------------------
(* The three generators, one per behaviour.                                *)

Init == InitSess \/ InitGrp \/ InitRdr

Next == NextSess \/ NextGrp \/ NextRdr

Spec == Init /\ [][Next]_vars

---------------------------------------------------------------------------
(* emit                                                                    *)

\* Python values given to emit: <<kind, content>>
PyBool(b) == <<"bool", b>>
PyInt(n)  == <<"int", n>>
PyStr(t)  == <<"str", t>>
PyList(l) == <<"list", l>>     \* l: a sequence of values
PyDict(d) == <<"dict", d>>     \* d: a sequence of <<key text, value>> items

Digits == <<"0", "1", "2", "3", "4", "5", "6", "7", "8", "9">>

\* str(n) of an integer n >= 0
RECURSIVE str_int(_)
str_int(n) ==
    IF n < 10 THEN <<Digits[n + 1]>>
    ELSE str_int(n \div 10) \o <<Digits[(n % 10) + 1]>>

\* str(value) of a bool, an int or a str
str(v) ==
    CASE v[1] = "bool" -> (IF v[2] THEN <<"T", "r", "u", "e">>
                           ELSE <<"F", "a", "l", "s", "e">>)
      [] v[1] = "int"  -> str_int(v[2])
      [] v[1] = "str"  -> v[2]

\* c.upper() for the letters of True and False
upper_char(c) ==
    CASE c = "r" -> "R" [] c = "u" -> "U" [] c = "e" -> "E"
      [] c = "a" -> "A" [] c = "l" -> "L" [] c = "s" -> "S"
      [] OTHER -> c

\* s.upper()
upper(s) == [i \in DOMAIN s |-> upper_char(s[i])]

\* d.join(texts)
RECURSIVE join(_, _)
join(d, texts) ==
    IF texts = <<>> THEN <<>>
    ELSE IF Len(texts) = 1 THEN texts[1]
    ELSE texts[1] \o d \o join(d, Tail(texts))

\* json.dumps(value, separators=(item, colon)) of a bool, an int, a str
\* without characters to escape, a list or a dict of these
RECURSIVE json_dumps(_, _, _)
json_dumps(v, item, colon) ==
    CASE v[1] = "bool" -> (IF v[2] THEN <<"t", "r", "u", "e">>
                           ELSE <<"f", "a", "l", "s", "e">>)
      [] v[1] = "int"  -> str_int(v[2])
      [] v[1] = "str"  -> <<"\"">> \o v[2] \o <<"\"">>
      [] v[1] = "list" ->
            <<"[">> \o join(item, [i \in DOMAIN v[2] |->
                                       json_dumps(v[2][i], item, colon)])
                    \o <<"]">>
      [] v[1] = "dict" ->
            <<"{">> \o join(item, [i \in DOMAIN v[2] |->
                                       <<"\"">> \o v[2][i][1] \o <<"\"">>
                                       \o colon
                                       \o json_dumps(v[2][i][2], item, colon)])
                    \o <<"}">>

\* lines 45-51 without the bool branch
convertNoBool(v) ==
    IF v[1] \in {"dict", "list"} THEN json_dumps(v, <<",">>, <<":">>)
    ELSE str(v)

\* lines 45-51, convert(value)
convert(v) ==
    IF v[1] \in {"dict", "list"} THEN json_dumps(v, <<",">>, <<":">>)
    ELSE IF v[1] = "bool" THEN upper(str(v))
    ELSE str(v)

\* lines 53-55: the text written for (key, values, delimiter)
EmitLine(k, vs, d) ==
    str(k) \o <<KV_SEPARATOR>>
           \o join(d, [i \in DOMAIN vs |-> convert(vs[i])])
           \o <<LineBreak>>

\* the strings given to emit as values
EmitTexts == TextsUpTo(MaxTextLen)

\* the values given to emit
Scalars == {PyBool(TRUE), PyBool(FALSE), PyInt(0), PyInt(1), PyInt(11)}
EmitValues ==
    Scalars \cup { PyStr(t) : t \in EmitTexts }
            \cup { PyList(<<>>), PyList(<<PyInt(1)>>),
                   PyList(<<PyInt(1), PyBool(TRUE)>>),
                   PyDict(<<>>), PyDict(<< <<<<"1">>, PyInt(1)>> >>),
                   PyDict(<< <<<<"1", "1">>,
                               PyList(<<PyInt(0), PyBool(FALSE)>>)>> >>) }

\* the keys given to emit: strings without tab, and an integer
EmitKeys ==
    { PyStr(t) : t \in { u \in EmitTexts :
                           \A i \in DOMAIN u : u[i] # KV_SEPARATOR } }
        \cup {PyInt(11)}

SeqsUpTo(S, n) == UNION { [1..k -> S] : k \in 0..n }

InitEmitOf(V) ==
    /\ comp = "emit"
    /\ pc = "call"
    /\ pos = 0
    /\ out = <<>>
    /\ err = "none"
    /\ events = <<>>
    /\ inactivity_timeout = 0
    /\ data = <<>>
    /\ prev_timestamp = None
    /\ row = None
    /\ stream = <<>>
    /\ delimiter \in Delimiters
    /\ tgtkey = None
    /\ currkey = None
    /\ currvalue = None
    /\ rows = <<>>
    /\ input_format = "SEQUENCE_FILE"
    /\ offset = 0
    /\ shared = 0
    /\ key \in EmitKeys
    /\ values \in SeqsUpTo(V, MaxValues)
    /\ other = None

InitEmit == InitEmitOf(EmitValues)

\* lines 53-55: stream.write(...) of the one line
Emit ==
    /\ comp = "emit" /\ pc = "call"
    /\ stream' = Append(stream, EmitLine(key, values, delimiter))
    /\ pc' = "written"
    /\ UNCHANGED <<comp, pos, out, err, delimiter, tgtkey, currkey,
                   currvalue, rows>>
    /\ UNCHANGED sessVars /\ UNCHANGED rdrVars /\ UNCHANGED envVars

SpecEmit == InitEmit /\ [][Emit]_vars

\* The line written by emit handed to reduce_record_grouper: the stream
\* emit wrote to (one line, or none when it is handed over before the call)
\* becomes the grouper's input, with the same delimiter.
InitRoundTrip ==
    /\ InitEmitOf({ PyStr(t) : t \in EmitTexts })
    /\ key[1] = "str"

\* line 90: reduce_record_grouper(stream, delimiter) is called on the stream
Feed ==
    /\ comp = "emit"
    /\ comp' = "grouper"
    /\ pc' = "start"
    /\ UNCHANGED <<pos, out, err, stream>>
    /\ UNCHANGED grpVars /\ UNCHANGED sessVars /\ UNCHANGED rdrVars
    /\ UNCHANGED envVars

NextRoundTrip ==
    \/ Emit \/ Feed
    \/ GrpFirst \/ GrpTake \/ GrpYieldOnEnd \/ GrpEnd

SpecRoundTrip == InitRoundTrip /\ [][NextRoundTrip]_vars

\* The grouper (with its default delimiter) and the sessionizer under a
\* caller that keeps asking for the next item until the generator ends.
InitPull == InitSess \/ (InitGrp /\ delimiter = <<KV_SEPARATOR>>)

NextPull == NextSess \/ NextGrp

SpecPull == InitPull /\ [][NextPull]_vars /\ WF_vars(NextPull)

---------------------------------------------------------------------------
(* Properties of time_based_sessionizer.                                   *)

SessDone == comp = "sessionizer" /\ pc = "done"

Range(s) == { s[i] : i \in DOMAIN s }

TsAt(i) == int(itemgetter0(events[i]))

Ascending == \A i \in 1..(Len(events) - 1) : TsAt(i) <= TsAt(i + 1)

\* input events i and j are found in the events list of one yielded session
SameSession(i, j) ==
    \E s \in DOMAIN out :
        events[i] \in Range(out[s][3]) /\ events[j] \in Range(out[s][3])

RECURSIVE ConcatEvents(_)
ConcatEvents(ss) ==
    IF ss = <<>> THEN <<>> ELSE Head(ss)[3] \o ConcatEvents(Tail(ss))

\* C1: once the generator has finished on ascending timestamps, adjacent
\* events i and i+1 share a session if and only if
\* timestamp[i+1] - timestamp[i] <= inactivity_timeout.
C1_SessionBoundaryLaw ==
    (SessDone /\ Ascending) =>
        \A i \in 1..(Len(events) - 1) :
            SameSession(i, i + 1)
                <=> (TsAt(i + 1) - TsAt(i) <= inactivity_timeout)

\* C2: two consecutive events whose timestamps differ by exactly
\* inactivity_timeout are in the same yielded session.
C2_TieNotSplit ==
    SessDone =>
        \A i \in 1..(Len(events) - 1) :
            (TsAt(i + 1) - TsAt(i) = inactivity_timeout)
                => SameSession(i, i + 1)

\* a finished run with a tie at a positive threshold and a real split elsewhere
C2_Witness ==
    /\ SessDone
    /\ inactivity_timeout > 0
    /\ Len(out) >= 2
    /\ \E i \in 1..(Len(events) - 1) :
           /\ TsAt(i) # 0
           /\ TsAt(i + 1) - TsAt(i) = inactivity_timeout
           /\ SameSession(i, i + 1)

\* C5: every yielded session has a non-empty events list, starts at the
\* timestamp of its first event and ends at the timestamp of its last; a
\* single event e with timestamp t yields exactly (t, t, [e]).
C5_SessionShape ==
    comp = "sessionizer" =>
        /\ \A s \in DOMAIN out :
               /\ Len(out[s][3]) > 0
               /\ out[s][1] = int(itemgetter0(out[s][3][1]))
               /\ out[s][2] = int(itemgetter0(out[s][3][Len(out[s][3])]))
        /\ (pc = "done" /\ Len(events) = 1) =>
               out = << <<TsAt(1), TsAt(1), events>> >>

\* a finished run with two sessions, one of them spanning several timestamps
C5_Witness ==
    /\ SessDone
    /\ Len(out) >= 2
    /\ \E s \in DOMAIN out : Len(out[s][3]) >= 2 /\ out[s][1] < out[s][2]

\* C7: the events lists of the yielded sessions, concatenated in output
\* order, are a prefix of the input at every moment and the whole input once
\* the generator has finished.
C7_SessionPartition ==
    comp = "sessionizer" =>
        /\ \E n \in 0..Len(events) :
               ConcatEvents(out) = SubSeq(events, 1, n)
        /\ pc = "done" => ConcatEvents(out) = events

\* a finished run in which a session was split off and the event that
\* triggered the split is in the following session
C7_Witness ==
    /\ SessDone
    /\ Len(out) >= 2
    /\ Len(events) = MaxEvents
    /\ ConcatEvents(out) = events

---------------------------------------------------------------------------
(* Properties of reduce_record_grouper.                                    *)

GrpDone == comp = "grouper" /\ pc = "done"

\* a line as the data model describes it: KEY, separator, PAYLOAD, line break
Body(line) == SubSeq(line, 1, Len(line) - 1)
HasSeparator(line) == Find(Body(line), KV_SEPARATOR) # 0
RawKey(line) == partition(Body(line), KV_SEPARATOR)[1]
RawPayload(line) == partition(Body(line), KV_SEPARATOR)[3]
RawRow(line, delim) ==
    IF delim # <<>> THEN split(RawPayload(line), delim[1]) ELSE RawPayload(line)

\* the key function applied to the record reader() makes of a line
KeyOfLine(line) == itemgetter0(ParseLine(line))

RECURSIVE ConcatRows(_)
ConcatRows(gs) ==
    IF gs = <<>> THEN <<>> ELSE Head(gs)[2] \o ConcatRows(Tail(gs))

\* the input position of the first row of group g, rows counted in order
GroupStart(g) == 1 + Len(ConcatRows(SubSeq(out, 1, g - 1)))

\* the input positions covered by group g
GroupLines(g) == GroupStart(g) .. (GroupStart(g) + Len(out[g][2]) - 1)

RawContiguous ==
    \A i, j, k \in DOMAIN stream :
        (i < j /\ j < k /\ RawKey(stream[i]) = RawKey(stream[k]))
            => RawKey(stream[j]) = RawKey(stream[i])

\* the number of maximal runs of consecutive lines with one key-function value
NumRuns ==
    IF stream = <<>> THEN 0
    ELSE 1 + Cardinality({ i \in 1..(Len(stream) - 1) :
                             KeyOfLine(stream[i]) # KeyOfLine(stream[i + 1]) })

\* C3: on a finished run over a stream whose lines sharing a key are
\* contiguous, there is one group per distinct key, the groups hold one row
\* per input line, and the rows of a group are those of consecutive lines
\* that all have one key: the groups cut the lines where the key changes.
C3_GrouperContiguity ==
    (GrpDone /\ RawContiguous) =>
        /\ Len(out) = Cardinality({ RawKey(stream[i]) : i \in DOMAIN stream })
        /\ Len(ConcatRows(out)) = Len(stream)
        /\ \A g \in DOMAIN out : \A i, j \in GroupLines(g) :
               /\ i \in DOMAIN stream
               /\ j \in DOMAIN stream
               /\ RawKey(stream[i]) = RawKey(stream[j])

\* C4: for any stream, the rows of every yielded group are the rows of a
\* contiguous run of input lines whose key-function value is the key yielded
\* with the group; two groups yielded one after the other have different
\* keys; and a finished run has yielded one group per run of equal keys, so a
\* key met again after another key gets a second group, without an error.
C4_GroupInvariant ==
    comp = "grouper" =>
        /\ \A g \in DOMAIN out : \A i \in GroupLines(g) :
               /\ i \in DOMAIN stream
               /\ KeyOfLine(stream[i]) = out[g][1]
               /\ out[g][2][i - GroupStart(g) + 1]
                      = RowOf(ParseLine(stream[i]), delimiter)
        /\ \A g \in 1..(Len(out) - 1) : out[g][1] # out[g + 1][1]
        /\ pc = "done" =>
               /\ err = "none"
               /\ Len(out) = NumRuns
               /\ Len(ConcatRows(out)) = Len(stream)

\* a finished run over a stream whose first key comes back after another key
C4_Witness ==
    /\ GrpDone
    /\ Len(out) = 3
    /\ out[1][1] = out[3][1]
    /\ out[1][1] # out[2][1]

\* C8: on a finished run, the row of every input line is its payload (all
\* the text after the first separator up to the line break, nothing
\* removed), split at every delimiter when one is configured, and it is
\* yielded under the text before the first separator.
C8_PayloadFidelity ==
    GrpDone =>
        \A g \in DOMAIN out : \A i \in GroupLines(g) :
            /\ i \in DOMAIN stream
            /\ out[g][1] = RawKey(stream[i])
            /\ out[g][2][i - GroupStart(g) + 1] = RawRow(stream[i], delimiter)

\* C9: on a finished run no error was raised, every line has its row, and a
\* line without separator has a row with an empty payload in a group whose
\* key is the whole line.
C9_MalformedLine ==
    GrpDone =>
        /\ err = "none"
        /\ Len(ConcatRows(out)) = Len(stream)
        /\ \A g \in DOMAIN out : \A i \in GroupLines(g) :
               (i \in DOMAIN stream /\ ~HasSeparator(stream[i])) =>
                   /\ out[g][1] = Body(stream[i])
                   /\ out[g][2][i - GroupStart(g) + 1]
                          = (IF delimiter # <<>> THEN << <<>> >> ELSE <<>>)

---------------------------------------------------------------------------
(* Properties of both components.                                          *)

\* C6: reduce_record_grouper on an empty stream and time_based_sessionizer
\* on no events yield nothing, and on any input no yielded group has an
\* empty row list and no yielded session an empty events list.
C6_Emptiness ==
    /\ (comp = "grouper" /\ stream = <<>>) => out = <<>>
    /\ (comp = "sessionizer" /\ events = <<>>) => out = <<>>
    /\ comp = "grouper" => \A g \in DOMAIN out : out[g][2] # <<>>
    /\ comp = "sessionizer" => \A s \in DOMAIN out : out[s][3] # <<>>

\* the grouper has finished on the empty stream
C6_Witness == GrpDone /\ stream = <<>> /\ out = <<>>

---------------------------------------------------------------------------
(* Properties of map_json_record_reader.                                   *)

\* C10: with an input_format that is neither SEQUENCE_FILE nor TEXT_FILE the
\* generator yields no record, never ends as a normal end-of-sequence, and
\* ends with a RuntimeError.
C10_UnknownFormatFatal ==
    (comp = "reader" /\ ~KnownFormat(input_format)) =>
        /\ out = <<>>
        /\ pc # "done"
        /\ pc = "raised" => err = "RuntimeError"

---------------------------------------------------------------------------
(* Termination of the grouper and the sessionizer.                         *)

\* C11: pulled to the end, the grouper and the sessionizer reach the end of
\* the sequence; no error is raised on the way; the yield made on exhaustion
\* hands out the pending rows or events as the last item; the finished output
\* holds every input item once; and nothing is yielded after the end.
C11_Termination ==
    /\ <>(pc = "done")
    /\ [](err = "none")
    /\ []((comp = "sessionizer" /\ pc = "yield163") =>
              (data # <<>> /\ out[Len(out)][3] = data))
    /\ []((comp = "grouper" /\ pc = "yield" /\ currvalue = None) =>
              (rows # <<>> /\ out[Len(out)][2] = rows))
    /\ []((comp = "sessionizer" /\ pc = "done") => ConcatEvents(out) = events)
    /\ []((comp = "grouper" /\ pc = "done") =>
              Len(ConcatRows(out)) = Len(stream))
    /\ [][pc = "done" => out' = out]_vars

\* the sessionizer has ended after a split and a final yield
C11_Witness ==
    /\ SessDone
    /\ Len(out) >= 2
    /\ out[Len(out)][3][Len(out[Len(out)][3])] = events[Len(events)]

---------------------------------------------------------------------------
(* Properties of map_json_record_reader, continued.                        *)

\* the length of the first n lines of the stream, line breaks included
RECURSIVE PrefixLen(_)
PrefixLen(n) == IF n = 0 THEN 0 ELSE PrefixLen(n - 1) + Len(stream[n])

\* C13: in TEXT_FILE mode the key of the k-th record is the length, line
\* breaks included, of the k-1 lines read before it (0 for the first), and
\* offset has been advanced by exactly the lines whose record was yielded and
\* resumed from.
C13_TextOffsetLaw ==
    (comp = "reader" /\ input_format = INPUT_FORMAT_TEXT_FILE) =>
        /\ \A k \in DOMAIN out : out[k][1] = PrefixLen(k - 1)
        /\ pc = "yield" => offset = PrefixLen(pos - 1)
        /\ pc \in {"loop", "done"} => offset = PrefixLen(pos)

\* text mode has yielded a second record, whose key is past 0
C13_Witness ==
    /\ comp = "reader" /\ input_format = INPUT_FORMAT_TEXT_FILE
    /\ pc = "done"
    /\ Len(out) >= 2
    /\ out[1][1] = 0
    /\ out[2][1] > 1
    /\ out[2][1] < offset

\* a line of the form KEY, tab, JSON payload
WellFormed(line) ==
    HasSeparator(line) /\ json_loads(RawPayload(line)) # None

\* C14: in SEQUENCE_FILE mode, on a stream of lines KEY<TAB>JSON, the
\* records yielded are, line by line and in order, (text before the first
\* tab, decoded JSON of the text after it); no error is raised, and the
\* generator ends after one record per line.
C14_SequenceDecoding ==
    (/\ comp = "reader"
     /\ input_format = INPUT_FORMAT_SEQUENCE_FILE
     /\ \A i \in DOMAIN stream : WellFormed(stream[i])) =>
        /\ err = "none" /\ pc # "raised"
        /\ Len(out) = pos
        /\ \A k \in DOMAIN out :
               out[k] = <<RawKey(stream[k]),
                          json_loads(RawPayload(stream[k]))[1]>>
        /\ pc = "done" => Len(out) = Len(stream)

\* sequence mode has ended after the record of a well-formed line whose key
\* is not empty
C14_Witness ==
    /\ comp = "reader" /\ input_format = INPUT_FORMAT_SEQUENCE_FILE
    /\ pc = "done"
    /\ \A i \in DOMAIN stream : WellFormed(stream[i])
    /\ Len(out) = 1
    /\ out[1][1] # <<>>

\* C15 as stated: in SEQUENCE_FILE mode every line read that has no
\* separator raised no error and has its record among those yielded.
C15_NoSeparatorSilent ==
    (comp = "reader" /\ input_format = INPUT_FORMAT_SEQUENCE_FILE) =>
        \A i \in 1..pos :
            ~HasSeparator(stream[i]) => (err = "none" /\ i <= Len(out))

\* C15 amended: in SEQUENCE_FILE mode a line read that has no separator is
\* the last line read; the generator has ended on it with a ValueError (the
\* empty payload is not JSON), having yielded no record for it.
C15_NoSeparatorRaises ==
    (comp = "reader" /\ input_format = INPUT_FORMAT_SEQUENCE_FILE) =>
        \A i \in 1..pos :
            ~HasSeparator(stream[i]) =>
                /\ pc = "raised" /\ err = "ValueError"
                /\ i = pos
                /\ Len(out) = i - 1

\* sequence mode has raised on a line without separator that follows a
\* decoded line and precedes another line
C15_Witness ==
    /\ comp = "reader" /\ input_format = INPUT_FORMAT_SEQUENCE_FILE
    /\ pc = "raised" /\ err = "ValueError"
    /\ pos = 2 /\ Len(stream) = 3
    /\ ~HasSeparator(stream[2])
    /\ Len(out) = 1

---------------------------------------------------------------------------
(* Laziness of the grouper and the sessionizer.                            *)

\* C16: input is consumed one item at a time as output is asked for.  While
\* the generator is suspended at a yield that is not the last, the items
\* consumed are those of the items yielded plus one, the item that ended the
\* group or session; at the last yield they are exactly those yielded; while
\* it runs, they are those yielded plus those pending.  The one extra item is
\* the first row or event of the next group or session.
C16_PullLookahead ==
    /\ comp = "sessionizer" =>
        /\ pc = "yield157" =>
               /\ pos = Len(ConcatEvents(out)) + 1
               /\ row = Some(events[pos])
        /\ pc = "yield163" =>
               /\ pos = Len(ConcatEvents(out))
               /\ pos = Len(events)
        /\ pc = "loop" => pos = Len(ConcatEvents(out)) + Len(data)
        /\ \A s \in 2..Len(out) :
               out[s][3][1] =
                   events[Len(ConcatEvents(SubSeq(out, 1, s - 1))) + 1]
    /\ comp = "grouper" =>
        /\ (pc = "yield" /\ currvalue # None) =>
               /\ pos = Len(ConcatRows(out)) + 1
               /\ currvalue = Some(ParseLine(stream[pos]))
        /\ (pc = "yield" /\ currvalue = None) =>
               /\ pos = Len(ConcatRows(out))
               /\ pos = Len(stream)
        /\ pc = "inner" =>
               pos = Len(ConcatRows(out)) + Len(rows)
                         + (IF currvalue # None THEN 1 ELSE 0)
        /\ \A g \in 2..Len(out) :
               out[g][2][1] =
                   RowOf(ParseLine(stream[GroupStart(g)]), delimiter)

\* the sessionizer is suspended at its second yield, one event ahead
C16_Witness ==
    /\ comp = "sessionizer" /\ pc = "yield157"
    /\ Len(out) = 2
    /\ pos = Len(ConcatEvents(out)) + 1

---------------------------------------------------------------------------
(* Yielded sessions and the list the generator goes on filling.            *)

\* C19: no step of the sessionizer changes a session it has yielded: start,
\* end and events list of every yielded session stay as they were.
C19_YieldedSessionFrozen ==
    [][comp = "sessionizer" =>
           \A s \in DOMAIN out : s \in DOMAIN out' /\ out'[s] = out[s]]_vars

\* after a yield the generator has gone on with a new list of two events
C19_Witness ==
    /\ comp = "sessionizer" /\ pc = "loop"
    /\ Len(out) >= 1
    /\ shared = 0
    /\ Len(data) = 2
    /\ \A s \in DOMAIN out : out[s][3] # data

---------------------------------------------------------------------------
(* Two invocations of one generator function, each over its own input,    *)
(* under a caller that pulls from them in any order.  The variables hold  *)
(* the frame of the invocation that runs; other holds the frame of the    *)
(* one that waits.  The module has no mutable global and no mutable       *)
(* default argument, so a frame is all the state an invocation has.       *)

Frame ==
    [comp |-> comp, pc |-> pc, pos |-> pos, out |-> out, err |-> err,
     events |-> events, inactivity_timeout |-> inactivity_timeout,
     data |-> data, prev_timestamp |-> prev_timestamp, row |-> row,
     stream |-> stream, delimiter |-> delimiter, tgtkey |-> tgtkey,
     currkey |-> currkey, currvalue |-> currvalue, rows |-> rows,
     shared |-> shared]

\* lines 136 and 152-153: the frame of time_based_sessionizer(evs, timeout)
\* before its first step
SessFrame(evs, timeout) ==
    [comp |-> "sessionizer", pc |-> "loop", pos |-> 0, out |-> <<>>,
     err |-> "none", events |-> evs, inactivity_timeout |-> timeout,
     data |-> <<>>, prev_timestamp |-> None, row |-> None,
     stream |-> <<>>, delimiter |-> <<>>, tgtkey |-> None,
     currkey |-> None, currvalue |-> None, rows |-> <<>>, shared |-> 0]

\* line 90: the frame of reduce_record_grouper(lines, delim) before its
\* first step
GrpFrame(lines, delim) ==
    [comp |-> "grouper", pc |-> "start", pos |-> 0, out |-> <<>>,
     err |-> "none", events |-> <<>>, inactivity_timeout |-> 0,
     data |-> <<>>, prev_timestamp |-> None, row |-> None,
     stream |-> lines, delimiter |-> delim, tgtkey |-> None,
     currkey |-> None, currvalue |-> None, rows |-> <<>>, shared |-> 0]

\* the inputs of the two invocations
PairTimestamps == {1, 2, MaxTs}
PairEventSeqs ==
    UNION { { [i \in 1..n |-> <<f[i], i>>] : f \in [1..n -> PairTimestamps] }
            : n \in 0..MaxPairEvents }

\* lines with the keys '1', '1' and '', the first without a separator
PairLines == { <<"1", LineBreak>>,
               <<"1", KV_SEPARATOR, "1", LineBreak>>,
               <<KV_SEPARATOR, "1", LineBreak>> }
PairStreams == SeqsUpTo(PairLines, MaxPairLines)

PairFrames ==
    { SessFrame(e, t) : e \in PairEventSeqs, t \in 0..MaxTimeout }
        \cup { GrpFrame(l, <<KV_SEPARATOR>>) : l \in PairStreams }

\* one invocation alone (other = None), or two of the same function
InitPair ==
    /\ \E f \in PairFrames :
           /\ comp = f.comp /\ pc = f.pc /\ pos = f.pos /\ out = f.out
           /\ err = f.err /\ events = f.events
           /\ inactivity_timeout = f.inactivity_timeout
           /\ data = f.data /\ prev_timestamp = f.prev_timestamp
           /\ row = f.row /\ stream = f.stream /\ delimiter = f.delimiter
           /\ tgtkey = f.tgtkey /\ currkey = f.currkey
           /\ currvalue = f.currvalue /\ rows = f.rows /\ shared = f.shared
    /\ input_format = "SEQUENCE_FILE"
    /\ offset = 0
    /\ key = <<>>
    /\ values = <<>>
    /\ other \in {None} \cup { Some(g) : g \in { h \in PairFrames :
                                                  h.comp = comp } }

\* a generator runs only between a next() and the yield that answers it:
\* the places where an invocation waits for its caller
Suspended ==
    \/ comp = "sessionizer" /\ pc \in {"yield157", "yield163", "done"}
    \/ comp = "sessionizer" /\ pc = "loop" /\ pos = 0
    \/ comp = "grouper" /\ pc \in {"start", "yield", "done"}

\* the caller turns to the other invocation, were data a list of the module
\* that all invocations append to
SwitchSharedData ==
    /\ other # None /\ Suspended
    /\ other' = Some(Frame)
    /\ comp' = other[1].comp /\ pc' = other[1].pc /\ pos' = other[1].pos
    /\ out' = other[1].out /\ err' = other[1].err
    /\ events' = other[1].events
    /\ inactivity_timeout' = other[1].inactivity_timeout
    /\ data' = data
    /\ prev_timestamp' = other[1].prev_timestamp /\ row' = other[1].row
    /\ stream' = other[1].stream /\ delimiter' = other[1].delimiter
    /\ tgtkey' = other[1].tgtkey /\ currkey' = other[1].currkey
    /\ currvalue' = other[1].currvalue /\ rows' = other[1].rows
    /\ shared' = other[1].shared
    /\ UNCHANGED <<input_format, offset, key, values>>

\* the caller turns to the other invocation: the one that ran waits with its
\* frame as it is, the one that waited goes on from where it was
Switch ==
    /\ other # None /\ Suspended
    /\ other' = Some(Frame)
    /\ comp' = other[1].comp /\ pc' = other[1].pc /\ pos' = other[1].pos
    /\ out' = other[1].out /\ err' = other[1].err
    /\ events' = other[1].events
    /\ inactivity_timeout' = other[1].inactivity_timeout
    /\ data' = other[1].data
    /\ prev_timestamp' = other[1].prev_timestamp /\ row' = other[1].row
    /\ stream' = other[1].stream /\ delimiter' = other[1].delimiter
    /\ tgtkey' = other[1].tgtkey /\ currkey' = other[1].currkey
    /\ currvalue' = other[1].currvalue /\ rows' = other[1].rows
    /\ shared' = other[1].shared
    /\ UNCHANGED <<input_format, offset, key, values>>

\* lines 152-163 as a function of the arguments: the sessions yielded from
\* event i on, with the locals data = d and prev_timestamp = prev
RECURSIVE SessionsFrom(_, _, _, _, _)
SessionsFrom(evs, timeout, i, d, prev) ==
    IF i > Len(evs)
    THEN IF Len(d) # 0 THEN <<SessionOf(d, evs[Len(evs)])>> ELSE <<>>
    ELSE LET r == evs[i]
             curr_timestamp == int(itemgetter0(r))
         IN IF SplitCond(prev, curr_timestamp, timeout)
            THEN <<SessionOf(d, r)>>
                     \o SessionsFrom(evs, timeout, i + 1, FreshData(d, r),
                                     Some(curr_timestamp))
            ELSE SessionsFrom(evs, timeout, i + 1, Append(d, r),
                              Some(curr_timestamp))

time_based_sessionizer(evs, timeout) ==
    SessionsFrom(evs, timeout, 1, <<>>, None)

\* lines 126-130 as a function of the items of reader(): the groups yielded
\* from item i on
RECURSIVE GroupsFrom(_, _, _)
GroupsFrom(items, delim, i) ==
    IF i > Len(items)
    THEN <<>>
    ELSE LET k == itemgetter0(items[i])
             j == CHOOSE m \in i..Len(items) :
                      /\ \A n \in i..m : SameKey(k, itemgetter0(items[n]))
                      /\ m = Len(items)
                             \/ ~SameKey(k, itemgetter0(items[m + 1]))
         IN << <<k, [n \in 1..(j - i + 1) |->
                        RowOf(items[i + n - 1], delim)]>> >>
                \o GroupsFrom(items, delim, j + 1)

reduce_record_grouper(lines, delim) ==
    GroupsFrom([i \in DOMAIN lines |-> ParseLine(lines[i])], delim, 1)

NextPair == Switch \/ NextSess \/ NextGrp

SpecPair == InitPair /\ [][NextPair]_vars

---------------------------------------------------------------------------
(* Properties of emit.                                                     *)

\* the text the serializer is to write for a value: compact JSON for a list
\* or a dict, TRUE or FALSE for a bool, the natural string form otherwise
TextFor(v) ==
    CASE v[1] = "bool" -> (IF v[2] THEN <<"T", "R", "U", "E">>
                           ELSE <<"F", "A", "L", "S", "E">>)
      [] v[1] = "int"  -> (CASE v[2] = 0 -> <<"0">>
                             [] v[2] = 1 -> <<"1">>
                             [] v[2] = 11 -> <<"1", "1">>)
      [] v[1] = "str"  -> v[2]
      [] v[1] = "list" -> (CASE Len(v[2]) = 0 -> <<"[", "]">>
                             [] Len(v[2]) = 1 -> <<"[", "1", "]">>
                             [] Len(v[2]) = 2 ->
                                  <<"[", "1", ",", "t", "r", "u", "e", "]">>)
      [] v[1] = "dict" -> (CASE v[2] = <<>> -> <<"{", "}">>
                             [] v[2] # <<>> /\ v[2][1][1] = <<"1">> ->
                                  <<"{", "\"", "1", "\"", ":", "1", "}">>
                             [] v[2] # <<>> /\ v[2][1][1] = <<"1", "1">> ->
                                  <<"{", "\"", "1", "1", "\"", ":", "[", "0",
                                    ",", "f", "a", "l", "s", "e", "]", "}">>)

\* where the text of value i starts in the line written, less one
RECURSIVE ValueStart(_)
ValueStart(i) ==
    IF i = 1 THEN Len(TextFor(key)) + 1
    ELSE ValueStart(i - 1) + Len(TextFor(values[i - 1])) + Len(delimiter)

\* C12: a call of emit writes one line: the text of the key, a tab, the
\* text of each value in the given order with the delimiter between
\* neighbours, and a line break, where the text of a value is compact JSON
\* for a list or a dict, TRUE or FALSE for a bool and its string form
\* otherwise.
C12_SerializerFormat ==
    (comp = "emit" /\ pc = "written") =>
        /\ Len(stream) = 1
        /\ LET line == stream[1]
               n == Len(values)
               end == IF n = 0 THEN Len(TextFor(key)) + 1
                      ELSE ValueStart(n) + Len(TextFor(values[n]))
           IN /\ Len(line) = end + 1
              /\ SubSeq(line, 1, Len(TextFor(key))) = TextFor(key)
              /\ line[Len(TextFor(key)) + 1] = KV_SEPARATOR
              /\ line[end + 1] = LineBreak
              /\ \A i \in 1..n :
                     SubSeq(line, ValueStart(i) + 1,
                            ValueStart(i) + Len(TextFor(values[i])))
                         = TextFor(values[i])
              /\ \A i \in 1..(n - 1) :
                     SubSeq(line, ValueStart(i) + Len(TextFor(values[i])) + 1,
                            ValueStart(i + 1))
                         = delimiter

\* a dict and a bool have been written with a delimiter between them
C12_Witness ==
    /\ comp = "emit" /\ pc = "written"
    /\ Len(values) = 2
    /\ values[1][1] = "dict" /\ values[1][2] # <<>>
    /\ values[2][1] = "bool"
    /\ delimiter # <<>>

---------------------------------------------------------------------------
(* Properties of emit followed by reduce_record_grouper.                   *)

\* the strings given to emit as values
ValueTexts == [i \in DOMAIN values |-> values[i][2]]

\* no value contains the delimiter
DelimiterFree ==
    \A i \in DOMAIN values : \A j \in DOMAIN values[i][2] :
        <<values[i][2][j]>> # delimiter

\* C18: for a key without tab and string values without the delimiter, the
\* grouper fed the one line emit wrote, with the same delimiter, yields
\* exactly one group: the key with the one row of the values given.
C18_RoundTrip ==
    ( /\ comp = "grouper" /\ pc = "done"
      /\ Len(stream) = 1
      /\ delimiter # <<>>
      /\ DelimiterFree )
    => out = << <<key[2], <<ValueTexts>> >> >>

---------------------------------------------------------------------------
(* Properties of two invocations.                                          *)

IsPrefix(a, b) == Len(a) <= Len(b) /\ SubSeq(b, 1, Len(a)) = a

\* what the invocation with frame f yields when it runs alone
Alone(f) ==
    IF f.comp = "sessionizer"
    THEN time_based_sessionizer(f.events, f.inactivity_timeout)
    ELSE reduce_record_grouper(f.stream, f.delimiter)

\* the invocation with frame f has yielded the first items it yields alone,
\* and all of them once it has ended
AsAlone(f) ==
    /\ IsPrefix(f.out, Alone(f))
    /\ f.pc = "done" => f.out = Alone(f)

\* C17: two invocations of time_based_sessionizer, or of
\* reduce_record_grouper, over separate inputs and pulled from in any order
\* each yield the sequence they yield alone, and a step of the one that runs
\* leaves the frame of the one that waits as it is.
C17_Independence ==
    /\ [](AsAlone(Frame) /\ (other # None => AsAlone(other[1])))
    /\ [][other # None =>
              \/ other' = other
              \/ other' = Some(Frame) /\ Frame' = other[1]]_vars

\* both invocations wait in the middle of their runs, over different inputs,
\* each having yielded a session
C17_Witness ==
    /\ other # None
    /\ comp = "sessionizer" /\ pc = "yield157"
    /\ other[1].pc = "yield157"
    /\ events # other[1].events
    /\ Len(out) = 1 /\ Len(other[1].out) = 1

===========================================================================
